---------------------------- MODULE Spec2Model ----------------------------
(***************************************************************************)
(* Gauss-Newton face-model solver (src/src/gauss_newton_solver.cpp).       *)
(*                                                                         *)
(* GaussNewtonSolver::solve / solve_CPU as a state machine: the outer      *)
(* Gauss-Newton loop (geometry, Jacobian/residual build, linear solve,     *)
(* update) and the inner loops of solveUpdatePCG / solveUpdateCG, one      *)
(* action per loop body.                                                   *)
(*                                                                         *)
(* Numbers: the code computes in IEEE single precision.  The model         *)
(* computes with exact rationals <<n, d>> (d > 0, lowest terms), i.e. the  *)
(* real-number result each float operation rounds.  Non-finite values and *)
(* values out of the represented range are outside the model: an action    *)
(* whose results are not all finite (1/w of a vertex on the camera plane,  *)
(* the Jacobi preconditioner of an all-zero Jacobian column, a numerator   *)
(* or denominator above MaxMagnitude) is not enabled.                      *)
(***************************************************************************)
EXTENDS Integers, Sequences, FiniteSets, TLC

VARIABLES
    pc,               \* control point of the running call
    method,           \* "solve" | "solve_CPU" | "solveUpdatePCG" | "solveUpdateCG"
    sparse_features,  \* const std::vector<glm::vec2>& sparse_features
    face,             \* Face& face: pose, coefficients, std devs, bases
    projection,       \* glm::mat4& projection, projection[col][row]
    params,           \* m_params
    iteration,        \* loop counter of the Gauss-Newton loop
    nUnknowns,        \* const int nUnknowns
    nResiduals,       \* const int nResiduals
    jacobian,         \* jacobian / jacobian_gpu, jacobian[row][col]
    residuals,        \* residuals / residuals_gpu
    result,           \* std::vector<float> result: the delta copied back
    ls,               \* frame of the running linear solve (x, r, p, M, z, ...)
    hist,             \* history: what the call has done so far
    omp               \* tasks of the running omp parallel for

vars == <<pc, method, sparse_features, face, projection, params, iteration,
          nUnknowns, nResiduals, jacobian, residuals, result, ls, hist, omp>>

-----------------------------------------------------------------------------
(* Exact rational arithmetic on a bounded range.                           *)

Abs(n) == IF n < 0 THEN -n ELSE n

RECURSIVE GCD(_, _)
GCD(a, b) == IF b = 0 THEN a ELSE CHOOSE g \in {GCD(b, m) : m \in {a % b}} : TRUE

\* Largest numerator and denominator the model represents.
MaxMagnitude == 30000

\* What a division by zero or a value out of range gives; it is absorbing.
NaR == <<0, 0>>

\* <<n, d>> when both are in range
InRange(n, d) ==
    IF Abs(n) <= MaxMagnitude /\ d <= MaxMagnitude THEN <<n, d>> ELSE NaR

Reduced(n, d, g) ==
    IF d < 0 THEN InRange((-n) \div g, (-d) \div g) ELSE InRange(n \div g, d \div g)

\* n/d in lowest terms with a positive denominator.
Q(n, d) ==
    CHOOSE q \in
        {IF dd = 0 THEN NaR
         ELSE IF nn = 0 THEN <<0, 1>>
         ELSE IF dd = 1 THEN InRange(nn, 1)
         ELSE Reduced(nn, dd, GCD(Abs(nn), Abs(dd))) : nn \in {n}, dd \in {d}} : TRUE

Zero == <<0, 1>>
One == <<1, 1>>
I(n) == <<n, 1>>

Finite(a) == a[2] # 0
FiniteVec(v) == \A k \in 1..Len(v) : Finite(v[k])
FiniteMat(A) == \A k \in 1..Len(A) : FiniteVec(A[k])

RAdd(a, b) ==
    CHOOSE q \in {Q(x[1] * y[2] + y[1] * x[2], x[2] * y[2]) : x \in {a}, y \in {b}} : TRUE
RNeg(a) == CHOOSE q \in {<<-x[1], x[2]>> : x \in {a}} : TRUE
RSub(a, b) == RAdd(a, RNeg(b))
RMul(a, b) == CHOOSE q \in {Q(x[1] * y[1], x[2] * y[2]) : x \in {a}, y \in {b}} : TRUE
RDiv(a, b) == CHOOSE q \in {Q(x[1] * y[2], x[2] * y[1]) : x \in {a}, y \in {b}} : TRUE
RLt(a, b) ==
    \E x \in {a}, y \in {b} : Finite(x) /\ Finite(y) /\ x[1] * y[2] < y[1] * x[2]
RLe(a, b) ==
    \E x \in {a}, y \in {b} : Finite(x) /\ Finite(y) /\ x[1] * y[2] <= y[1] * x[2]

\* std::max(a, b) is (a < b) ? b : a; std::min(a, b) is (b < a) ? b : a.
RMax(a, b) ==
    CHOOSE q \in
        {IF Finite(x) /\ Finite(y) THEN (IF RLt(x, y) THEN y ELSE x) ELSE NaR :
             x \in {a}, y \in {b}} : TRUE
RMin(a, b) ==
    CHOOSE q \in
        {IF Finite(x) /\ Finite(y) THEN (IF RLt(y, x) THEN y ELSE x) ELSE NaR :
             x \in {a}, y \in {b}} : TRUE

Min(a, b) == IF b < a THEN b ELSE a

\* the function f on 1..n as a sequence
SeqOf(f) == <<>> \o f

RECURSIVE RSumTo(_, _)
RSumTo(s, n) == IF n = 0 THEN Zero ELSE RAdd(RSumTo(s, n - 1), s[n])

RSum(s) == CHOOSE q \in {RSumTo(t, Len(t)) : t \in {s}} : TRUE

\* cublasSdot
Dot(u, v) ==
    CHOOSE q \in {RSum(SeqOf([k \in 1..Len(a) |-> RMul(a[k], b[k])])) :
                      a \in {u}, b \in {v}} : TRUE

\* cublasSaxpy: y = a*x + y
Axpy(a, x, y) ==
    CHOOSE q \in {SeqOf([k \in 1..Len(u) |-> RAdd(RMul(c, u[k]), v[k])]) :
                      c \in {a}, u \in {x}, v \in {y}} : TRUE

\* cublasSscal: x = a*x
Scal(a, x) ==
    CHOOSE q \in {SeqOf([k \in 1..Len(u) |-> RMul(c, u[k])]) : c \in {a}, u \in {x}} : TRUE

ZeroVec(n) == SeqOf([k \in 1..n |-> Zero])

\* cublasSgemv(CUBLAS_OP_N, nRes, nU, &alpha, A, nRes, v, 1, &beta = 0, y, 1)
GemvN(alpha, A, v) ==
    CHOOSE q \in {SeqOf([row \in 1..Len(B) |-> RMul(alpha, Dot(B[row], u))]) :
                      B \in {A}, u \in {v}} : TRUE

\* cublasSgemv(CUBLAS_OP_T, nRes, nU, ...): y = alpha * A^T * v
GemvT(alpha, A, v, nU) ==
    CHOOSE q \in
        {SeqOf([col \in 1..nU |->
                   RMul(alpha, RSum(SeqOf([row \in 1..Len(B) |->
                                              RMul(B[row][col], u[row])])))]) :
             B \in {A}, u \in {v}} : TRUE

-----------------------------------------------------------------------------
(* Linear solvers.                                                         *)

\* solveUpdatePCG(m_cublas, nUnknowns, nResiduals, ..., 2, -1): the call's
\* alphaLHS and alphaRHS arguments.
alphaLHS == 2
alphaRHS == -1

\* Every value of a frame is finite.
FiniteLS(f) ==
    /\ FiniteVec(f.x) /\ FiniteVec(f.r) /\ FiniteVec(f.p)
    /\ FiniteVec(f.M) /\ FiniteVec(f.z)
    /\ Finite(f.zTr_old) /\ Finite(f.zTr)

\* History of a call that has done nothing yet.
NoHist ==
    [builds |-> 0, solves |-> 0, updates |-> 0, writes |-> {}, proj11 |-> Zero,
     entry |-> <<>>, before |-> <<>>]

\* Frame of no running linear solve.  rhs, steps, dots, akDen, bkDen record
\* the right-hand side, the number of passes through the body and the
\* inner products and divisors computed so far.
NoLS ==
    [x |-> <<>>, r |-> <<>>, p |-> <<>>, M |-> <<>>, z |-> <<>>,
     zTr_old |-> Zero, zTr |-> Zero, i |-> 0,
     rhs |-> <<>>, steps |-> 0, dots |-> <<>>, akDen |-> <<>>, bkDen |-> <<>>,
     exit |-> "none"]

\* No omp parallel for is running: no task, no task-local c, no access made.
NoTasks == [task |-> <<>>, c |-> <<>>, log |-> {}]

\* computeJacobiPreconditioner(nUnknowns, nResiduals, jacobian, M):
\* M = inv(2*diag(JTJ))
computeJacobiPreconditioner(nU, J) ==
    CHOOSE q \in
        {SeqOf([col \in 1..nU |->
                   RDiv(One, RMul(I(2), RSum(SeqOf([row \in 1..Len(A) |->
                                                       RMul(A[row][col], A[row][col])]))))]) :
             A \in {J}} : TRUE

\* elementwiseMultiplication(n, a, b, out)
elementwiseMultiplication(a, b) ==
    CHOOSE q \in {SeqOf([k \in 1..Len(u) |-> RMul(u[k], v[k])]) : u \in {a}, v \in {b}} : TRUE

\* the loop bound without the std::min
BudgetIgnoresUnknowns(nU, num_pcg_iterations) == num_pcg_iterations

\* for (; i < std::min(nUnknowns, m_params.num_pcg_iterations); ++i)
InnerBudget(nU, num_pcg_iterations) == Min(nU, num_pcg_iterations)

\* the step-length divisor taken with std::min
CappedDenominator(pTJTJp, kNearZero) == RMin(pTJTJp, kNearZero)

\* std::max(pTJTJp, m_params.kNearZero): the step-length divisor
StepDenominator(pTJTJp, kNearZero) == RMax(pTJTJp, kNearZero)

\* the divisor of bk without the floor
UnflooredDenominator(dot_old, kNearZero) == dot_old

\* std::max(zTr_old, m_params.kNearZero): the divisor of bk
DirectionDenominator(dot_old, kNearZero) == RMax(dot_old, kNearZero)

\* if (zTr < m_params.kTolerance) break;
BelowTolerance(dot, kTolerance) == RLt(dot, kTolerance)

\* JTJp: the two cublasSgemv calls at the head of the loop body
ApplyJTJ(J, p, nU) == GemvT(One, J, GemvN(I(alphaLHS), J, p), nU)

\* solveUpdatePCG up to the loop: x = 0, M, r = alphaRHS * J^T f, z = M r,
\* p = z, zTr_old = z.r
PCGInit ==
    /\ pc = "linsolve"
    /\ method # "solveUpdateCG"
    /\ \E M \in {computeJacobiPreconditioner(nUnknowns, jacobian)} :
       \E r \in {GemvT(I(alphaRHS), jacobian, residuals, nUnknowns)} :
       \E z \in {elementwiseMultiplication(M, r)} :
       \E zTr_old \in {Dot(z, r)} :
           ls' = [NoLS EXCEPT !.x = ZeroVec(nUnknowns), !.M = M, !.r = r, !.z = z,
                              !.p = z, !.zTr_old = zTr_old,
                              !.rhs = r, !.dots = <<zTr_old>>]
    /\ FiniteLS(ls')
    /\ pc' = "pcg_loop"
    /\ hist' = [hist EXCEPT !.solves = @ + 1]
    /\ UNCHANGED <<method, sparse_features, face, projection, params, iteration,
                   nUnknowns, nResiduals, jacobian, residuals, result>>
    /\ UNCHANGED omp

\* One pass through the body of the loop of solveUpdatePCG; exit = "break"
\* when the loop is left by the break.
PCGIterate ==
    /\ pc = "pcg_loop"
    /\ ls.i < InnerBudget(nUnknowns, params.num_pcg_iterations)
    /\ \E JTJp \in {ApplyJTJ(jacobian, ls.p, nUnknowns)} :
       \E pTJTJp \in {Dot(ls.p, JTJp)} :
       \E den \in {StepDenominator(pTJTJp, params.kNearZero)} :
       \E ak \in {RDiv(ls.zTr_old, den)} :
       \E r \in {Axpy(RNeg(ak), JTJp, ls.r)} :
       \E z \in {elementwiseMultiplication(ls.M, r)} :
       \E zTr \in {Dot(z, r)} :
       \E bden \in {DirectionDenominator(ls.zTr_old, params.kNearZero)} :
           IF BelowTolerance(zTr, params.kTolerance)
           THEN ls' = [ls EXCEPT !.x = Axpy(ak, ls.p, ls.x), !.r = r, !.z = z,
                                 !.zTr = zTr, !.steps = @ + 1,
                                 !.dots = Append(@, zTr), !.akDen = Append(@, den),
                                 !.exit = "break"]
           ELSE ls' = [ls EXCEPT !.x = Axpy(ak, ls.p, ls.x), !.r = r, !.z = z,
                                 !.zTr = zTr, !.steps = @ + 1,
                                 !.dots = Append(@, zTr), !.akDen = Append(@, den),
                                 !.p = Axpy(One, z, Scal(RDiv(zTr, bden), ls.p)),
                                 !.bkDen = Append(@, bden),
                                 !.zTr_old = zTr, !.i = @ + 1]
    /\ FiniteLS(ls')
    /\ pc' = IF ls'.exit = "break" THEN "ls_done" ELSE "pcg_loop"
    /\ UNCHANGED <<method, sparse_features, face, projection, params, iteration,
                   nUnknowns, nResiduals, jacobian, residuals, result, hist>>
    /\ UNCHANGED omp

\* The loop condition of solveUpdatePCG fails: the function returns.
PCGExit ==
    /\ pc = "pcg_loop"
    /\ ~(ls.i < InnerBudget(nUnknowns, params.num_pcg_iterations))
    /\ ls' = [ls EXCEPT !.exit = "budget"]
    /\ pc' = "ls_done"
    /\ UNCHANGED <<method, sparse_features, face, projection, params, iteration,
                   nUnknowns, nResiduals, jacobian, residuals, result, hist>>
    /\ UNCHANGED omp

\* solveUpdateCG up to the loop: x = 0, r = alphaRHS * J^T f, p = r,
\* rTr = r.r, rTr_old = 0.  The frame keeps rTr in zTr and rTr_old in
\* zTr_old.
CGInit ==
    /\ pc = "linsolve"
    /\ method = "solveUpdateCG"
    /\ \E r \in {GemvT(I(alphaRHS), jacobian, residuals, nUnknowns)} :
       \E rTr \in {Dot(r, r)} :
           ls' = [NoLS EXCEPT !.x = ZeroVec(nUnknowns), !.r = r, !.p = r,
                              !.zTr = rTr, !.rhs = r, !.dots = <<rTr>>]
    /\ FiniteLS(ls')
    /\ pc' = "cg_loop"
    /\ hist' = [hist EXCEPT !.solves = @ + 1]
    /\ UNCHANGED <<method, sparse_features, face, projection, params, iteration,
                   nUnknowns, nResiduals, jacobian, residuals, result>>
    /\ UNCHANGED omp

\* One pass through the body of the loop of solveUpdateCG.
CGIterate ==
    /\ pc = "cg_loop"
    /\ ls.i < InnerBudget(nUnknowns, params.num_pcg_iterations)
    /\ \E JTJp \in {ApplyJTJ(jacobian, ls.p, nUnknowns)} :
       \E rTr_old \in {ls.zTr} :
       \E pTJTJp \in {Dot(ls.p, JTJp)} :
       \E den \in {StepDenominator(pTJTJp, params.kNearZero)} :
       \E ak \in {RDiv(ls.zTr, den)} :
       \E r \in {Axpy(RNeg(ak), JTJp, ls.r)} :
       \E rTr \in {Dot(r, r)} :
       \E bden \in {DirectionDenominator(rTr_old, params.kNearZero)} :
           IF BelowTolerance(rTr, params.kTolerance)
           THEN ls' = [ls EXCEPT !.x = Axpy(ak, ls.p, ls.x), !.r = r,
                                 !.zTr = rTr, !.zTr_old = rTr_old, !.steps = @ + 1,
                                 !.dots = Append(@, rTr), !.akDen = Append(@, den),
                                 !.exit = "break"]
           ELSE ls' = [ls EXCEPT !.x = Axpy(ak, ls.p, ls.x), !.r = r,
                                 !.zTr = rTr, !.zTr_old = rTr_old, !.steps = @ + 1,
                                 !.dots = Append(@, rTr), !.akDen = Append(@, den),
                                 !.p = Axpy(One, r, Scal(RDiv(rTr, bden), ls.p)),
                                 !.bkDen = Append(@, bden),
                                 !.i = @ + 1]
    /\ FiniteLS(ls')
    /\ pc' = IF ls'.exit = "break" THEN "ls_done" ELSE "cg_loop"
    /\ UNCHANGED <<method, sparse_features, face, projection, params, iteration,
                   nUnknowns, nResiduals, jacobian, residuals, result, hist>>
    /\ UNCHANGED omp

\* The loop condition of solveUpdateCG fails: the function returns.
CGExit ==
    /\ pc = "cg_loop"
    /\ ~(ls.i < InnerBudget(nUnknowns, params.num_pcg_iterations))
    /\ ls' = [ls EXCEPT !.exit = "budget"]
    /\ pc' = "ls_done"
    /\ UNCHANGED <<method, sparse_features, face, projection, params, iteration,
                   nUnknowns, nResiduals, jacobian, residuals, result, hist>>
    /\ UNCHANGED omp

-----------------------------------------------------------------------------
(* Small dense matrices, stored as sequences of rows.                      *)

MatMul(A, B) ==
    CHOOSE q \in
        {SeqOf([i \in 1..Len(X) |->
                   SeqOf([j \in 1..Len(Y[1]) |->
                             RSum(SeqOf([k \in 1..Len(Y) |-> RMul(X[i][k], Y[k][j])]))])]) :
             X \in {A}, Y \in {B}} : TRUE

MatVec(A, v) ==
    CHOOSE q \in {SeqOf([i \in 1..Len(X) |-> Dot(X[i], u)]) : X \in {A}, u \in {v}} : TRUE

\* glm::mat4 m, indexed m[col][row], times glm::vec4 v
GlmMulVec4(m, v) ==
    CHOOSE q \in
        {SeqOf([row \in 1..4 |-> RSum(SeqOf([col \in 1..4 |-> RMul(X[col][row], u[col])]))]) :
             X \in {m}, u \in {v}} : TRUE

\* basis.block(first, 0, 3, n): rows first..first+2 (0-based), columns 0..n-1
Block3(basis, first, n) ==
    SeqOf([i \in 1..3 |-> SeqOf([j \in 1..n |-> basis[first + i][j]])])

ZeroMat(rows, cols) == SeqOf([i \in 1..rows |-> ZeroVec(cols)])

-----------------------------------------------------------------------------
(* The face model and the prior, as the solver uses them.                  *)

\* PriorSparseFeatures::get().getPriorIds(): the vertex of each feature
prior_local_ids == <<0, 1, 0, 1>>

\* Face::computeFace: the vertices are the neutral face displaced by the
\* bases weighted with the coefficients.
computeFace(f) ==
    SeqOf([v \in 1..f.m_number_of_vertices |->
              SeqOf([a \in 1..3 |->
                        RAdd(f.neutral[v][a],
                             RAdd(Dot(f.m_shape_basis[3 * (v - 1) + a],
                                      f.m_shape_coefficients),
                                  Dot(f.m_expression_basis[3 * (v - 1) + a],
                                      f.m_expression_coefficients)))])])

\* What the face model answers for its rotation: the rotation matrix and
\* its three derivatives.  The rotation parametrisation is the face
\* model's; the solver sees one of these answers.
Gx == <<<<Zero, Zero, Zero>>, <<Zero, Zero, I(-1)>>, <<Zero, One, Zero>>>>
Gy == <<<<Zero, Zero, One>>, <<Zero, Zero, Zero>>, <<I(-1), Zero, Zero>>>>
Gz == <<<<Zero, I(-1), Zero>>, <<One, Zero, Zero>>, <<Zero, Zero, Zero>>>>
Id3 == <<<<One, Zero, Zero>>, <<Zero, One, Zero>>, <<Zero, Zero, One>>>>
RotZ == <<<<Zero, I(-1), Zero>>, <<One, Zero, Zero>>, <<Zero, Zero, One>>>>

RotationAnswers ==
    {[R |-> Id3, drx |-> Gx, dry |-> Gy, drz |-> Gz],
     [R |-> RotZ, drx |-> MatMul(RotZ, Gx), dry |-> MatMul(RotZ, Gy),
      drz |-> MatMul(Gz, RotZ)]}

\* Face::computeModelMatrix: glm::mat4 face_pose[col][row], the rotation
\* in the upper 3x3 and the translation in column 3.
computeModelMatrix(f, rot) ==
    <<<<rot.R[1][1], rot.R[2][1], rot.R[3][1], Zero>>,
      <<rot.R[1][2], rot.R[2][2], rot.R[3][2], Zero>>,
      <<rot.R[1][3], rot.R[2][3], rot.R[3][3], Zero>>,
      <<f.translation[1], f.translation[2], f.translation[3], One>>>>

-----------------------------------------------------------------------------
(* Jacobian and residuals of one Gauss-Newton iteration.  A write is the   *)
(* record [of, i, row, col, val]: loop "of", index i, stores val at        *)
(* (row, col), 0-based; a residual write has no col.                       *)

\* std::powf(10, m_params.regularisation_weight_exponent)
wReg(e) == IF e >= 0 THEN I(10 ^ e) ELSE Q(1, 10 ^ (-e))

\* jacobian.block(row0, col0, 2, w) = B, written by feature i
BlockWrites(i, row0, col0, B, w) ==
    CHOOSE q \in
        {SeqOf([k \in 1..(2 * w) |->
                   [of |-> "feature", i |-> i,
                    row |-> row0 + ((k - 1) \div w), col |-> col0 + ((k - 1) % w),
                    val |-> X[((k - 1) \div w) + 1][((k - 1) % w) + 1]]]) :
             X \in {B}} : TRUE

\* jacobian_proj: the Jacobian of the division by w
jacobian_proj(proj_coord) ==
    CHOOSE q \in
        {<<<<one_over_wp, Zero,
             RMul(RMul(RNeg(proj_coord[1]), one_over_wp), one_over_wp)>>,
           <<Zero, one_over_wp,
             RMul(RMul(RNeg(proj_coord[2]), one_over_wp), one_over_wp)>>>> :
             one_over_wp \in {RDiv(One, proj_coord[4])}} : TRUE

\* jacobian_world: (1,1) is read once before the loop, (0,0) in the loop
jacobian_world(proj, proj11) ==
    <<<<proj[1][1], Zero, Zero>>, <<Zero, proj11, Zero>>, <<Zero, Zero, I(-1)>>>>

jacobian_intrinsics(world_coord) == <<<<world_coord[1]>>, <<Zero>>, <<Zero>>>>

\* jacobian_pose: the rotation derivatives applied to the vertex, then the
\* identity for the translation
jacobian_pose(rot, local_coord) ==
    CHOOSE q \in
        {<<<<dx[1], dy[1], dz[1], One, Zero, Zero>>,
           <<dx[2], dy[2], dz[2], Zero, One, Zero>>,
           <<dx[3], dy[3], dz[3], Zero, Zero, One>>>> :
             dx \in {MatVec(rot.drx, local_coord)},
             dy \in {MatVec(rot.dry, local_coord)},
             dz \in {MatVec(rot.drz, local_coord)}} : TRUE

jacobian_local(face_pose) ==
    <<<<face_pose[1][1], face_pose[2][1], face_pose[3][1]>>,
      <<face_pose[1][2], face_pose[2][2], face_pose[3][2]>>,
      <<face_pose[1][3], face_pose[2][3], face_pose[3][3]>>>>

jacobian_proj_world(proj_coord, proj, proj11) ==
    MatMul(jacobian_proj(proj_coord), jacobian_world(proj, proj11))

jacobian_proj_world_local(proj_coord, proj, proj11, face_pose) ==
    MatMul(jacobian_proj_world(proj_coord, proj, proj11), jacobian_local(face_pose))

\* The body of the feature loop for feature i (0-based), given the
\* coordinates of its vertex: the residual pair and the Jacobian writes in
\* the order of the code.
FeatureRowsAt(i, f, face_pose, rot, proj, proj11, nS, nE, feats, vertexId, local_coord, world_coord, proj_coord) ==
    [residual |->
         <<[of |-> "feature", i |-> i, row |-> i * 2,
            val |-> RSub(feats[i + 1][1], RDiv(proj_coord[1], proj_coord[4]))],
           [of |-> "feature", i |-> i, row |-> i * 2 + 1,
            val |-> RSub(feats[i + 1][2], RDiv(proj_coord[2], proj_coord[4]))]>>,
     writes |->
         BlockWrites(i, i * 2, 0,
                     MatMul(jacobian_proj(proj_coord), jacobian_intrinsics(world_coord)), 1)
         \o BlockWrites(i, i * 2, 1,
                        MatMul(jacobian_proj_world(proj_coord, proj, proj11),
                               jacobian_pose(rot, local_coord)), 6)
         \o BlockWrites(i, i * 2, 7,
                        MatMul(jacobian_proj_world_local(proj_coord, proj, proj11, face_pose),
                               Block3(f.m_shape_basis, 3 * vertexId, nS)), nS)
         \o BlockWrites(i, i * 2, 7 + nS,
                        MatMul(jacobian_proj_world_local(proj_coord, proj, proj11, face_pose),
                               Block3(f.m_expression_basis, 3 * vertexId, nE)), nE)]

world_coord_of(face_pose, local_coord) == GlmMulVec4(face_pose, local_coord \o <<One>>)

FeatureRows(i, f, current_face, face_pose, rot, proj, proj11, nS, nE, feats) ==
    FeatureRowsAt(i, f, face_pose, rot, proj, proj11, nS, nE, feats,
                  prior_local_ids[i + 1],
                  current_face[prior_local_ids[i + 1] + 1],
                  world_coord_of(face_pose, current_face[prior_local_ids[i + 1] + 1]),
                  GlmMulVec4(proj, world_coord_of(face_pose,
                                                  current_face[prior_local_ids[i + 1] + 1])))

RECURSIVE ConcatTo(_, _)
ConcatTo(seqs, n) == IF n = 0 THEN <<>> ELSE ConcatTo(seqs, n - 1) \o seqs[n]

\* for (int i = 0; i < nFeatures; ++i): [residual, writes] of the loop
FeatureLoop(f, current_face, face_pose, rot, proj, proj11, nF, nS, nE, feats) ==
    CHOOSE q \in
        {[residual |-> ConcatTo(SeqOf([k \in 1..nF |-> rows[k].residual]), nF),
          writes |-> ConcatTo(SeqOf([k \in 1..nF |-> rows[k].writes]), nF)] :
             rows \in {SeqOf([k \in 1..nF |->
                                 FeatureRows(k - 1, f, current_face, face_pose,
                                             rot, proj, proj11, nS, nE, feats)])}} : TRUE

\* the diagonal entry computed from the coefficient the call started with,
\* as if hoisted out of the Gauss-Newton loop
RegularizerEntryHoisted(kind, i, row, col, stddev, coeff, lambda) ==
    CHOOSE q \in
        {[of |-> kind, i |-> i, row |-> row, col |-> col,
          val |-> RMul(RMul(RMul(RMul(divSigma, divSigma), first), lambda), I(2))] :
             divSigma \in {RDiv(One, stddev)},
             first \in {IF kind = "shape"
                        THEN hist.entry.face.m_shape_coefficients[i + 1]
                        ELSE hist.entry.face.m_expression_coefficients[i + 1]}} : TRUE

\* The regularizer block: one Jacobian write and one residual write per
\* coefficient.
RegularizerEntry(kind, i, row, col, stddev, coeff, lambda) ==
    CHOOSE q \in
        {[of |-> kind, i |-> i, row |-> row, col |-> col,
          val |-> RMul(RMul(RMul(RMul(divSigma, divSigma), coeff), lambda), I(2))] :
             divSigma \in {RDiv(One, stddev)}} : TRUE

\* a regularizer residual that is the coefficient itself
RegularizerResidualCoeff(coeff) == coeff

\* residuals(offset_rows_shape + i) = 0;
RegularizerResidual(coeff) == Zero

\* the expression columns put where the shape columns are
ExpressionColsAtShapeCols(offset_cols_shape, nS) == offset_cols_shape

\* int offset_cols_expression = offset_cols_shape + nShapeCoeffs;
OffsetColsExpression(offset_cols_shape, nS) == offset_cols_shape + nS

\* int offset_rows_expression = offset_rows_shape + nShapeCoeffs;
OffsetRowsExpression(offset_rows_shape, nS) == offset_rows_shape + nS

RegularizerLoop(f, nF, nS, nE, lambda) ==
    LET offset_cols_shape == 7
        offset_rows_shape == 2 * nF
        offset_cols_expression == OffsetColsExpression(offset_cols_shape, nS)
        offset_rows_expression == OffsetRowsExpression(offset_rows_shape, nS)
    IN  [writes |->
             SeqOf([k \in 1..nS |->
                       RegularizerEntry("shape", k - 1, offset_rows_shape + (k - 1),
                                        offset_cols_shape + (k - 1),
                                        f.m_shape_std_dev[k],
                                        f.m_shape_coefficients[k], lambda)])
             \o SeqOf([k \in 1..nE |->
                          RegularizerEntry("expression", k - 1,
                                           offset_rows_expression + (k - 1),
                                           offset_cols_expression + (k - 1),
                                           f.m_expression_std_dev[k],
                                           f.m_expression_coefficients[k], lambda)]),
         residual |->
             SeqOf([k \in 1..nS |->
                       [of |-> "shape", i |-> k - 1,
                        row |-> offset_rows_shape + (k - 1),
                        val |-> RegularizerResidual(f.m_shape_coefficients[k])]])
             \o SeqOf([k \in 1..nE |->
                          [of |-> "expression", i |-> k - 1,
                           row |-> offset_rows_expression + (k - 1),
                           val |-> RegularizerResidual(f.m_expression_coefficients[k])]])]

\* The CUDA builders of solve: the same rows as the loops of solve_CPU.
computeJacobianSparseFeatures(f, current_face, face_pose, rot, proj, proj11, nF, nS, nE, feats) ==
    FeatureLoop(f, current_face, face_pose, rot, proj, proj11, nF, nS, nE, feats)

computeRegularizer(f, nF, nS, nE, lambda) == RegularizerLoop(f, nF, nS, nE, lambda)

\* One write into matrix A; a write outside A stores nothing.
Write(A, w) ==
    CHOOSE q \in
        {IF w.row + 1 \in 1..Len(X) /\ w.col + 1 \in 1..Len(X[1])
         THEN [X EXCEPT ![w.row + 1][w.col + 1] = w.val]
         ELSE X : X \in {A}} : TRUE

RECURSIVE ApplyWrites(_, _, _)
ApplyWrites(A, ws, n) ==
    IF n = 0 THEN A ELSE Write(ApplyWrites(A, ws, n - 1), ws[n])

\* One write into vector v
WriteVec(v, w) ==
    CHOOSE q \in
        {IF w.row + 1 \in 1..Len(u) THEN [u EXCEPT ![w.row + 1] = w.val] ELSE u :
             u \in {v}} : TRUE

RECURSIVE ApplyVecWrites(_, _, _)
ApplyVecWrites(v, ws, n) ==
    IF n = 0 THEN v ELSE WriteVec(ApplyVecWrites(v, ws, n - 1), ws[n])

-----------------------------------------------------------------------------
(* GaussNewtonSolver::solve and solve_CPU.                                 *)

nShapeCoeffs == params.num_shape_coefficients
nExpressionCoeffs == params.num_expression_coefficients
nFeatures == Len(sparse_features)

\* no test of the feature sequence
NeverEmpty(feats) == FALSE

\* if (sparse_features.empty()) return;
EmptyFeatures(feats) == Len(feats) = 0

\* the loop test with <= for <
LoopContinuesInclusive(it, num_gn_iterations) == it <= num_gn_iterations

\* for (int iteration = 0; iteration < m_params.num_gn_iterations; ++iteration)
LoopContinues(it, num_gn_iterations) == it < num_gn_iterations

\* What face and projection are at a point of the call.
Snapshot == [face |-> face, projection |-> projection]

\* The call: the empty-sequence return, then the set-up before the loop.
\* residuals is allocated without a value (NaR in every entry).
Call(m, feats) ==
    /\ pc = "idle"
    /\ method' = m
    /\ sparse_features' = feats
    /\ IF EmptyFeatures(feats)
       THEN /\ pc' = "returned"
            /\ hist' = [hist EXCEPT !.entry = Snapshot]
            /\ UNCHANGED <<nUnknowns, nResiduals, jacobian, residuals, result>>
       ELSE /\ pc' = "gn_loop"
            /\ nUnknowns' = 7 + (nShapeCoeffs + nExpressionCoeffs)
            /\ nResiduals' = 2 * Len(feats) + (nShapeCoeffs + nExpressionCoeffs)
            /\ jacobian' = ZeroMat(nResiduals', nUnknowns')
            /\ residuals' = SeqOf([k \in 1..nResiduals' |-> NaR])
            /\ result' = ZeroVec(nUnknowns')
            /\ hist' = [hist EXCEPT !.proj11 = projection[2][2], !.entry = Snapshot]
    /\ iteration' = 0
    /\ UNCHANGED <<face, projection, params, ls>>
    /\ UNCHANGED omp

\* Head of one iteration: computeFace, computeModelMatrix,
\* computeRotationDerivatives, the feature rows and the regularizer.
Build(rot) ==
    /\ pc = "gn_loop"
    /\ LoopContinues(iteration, params.num_gn_iterations)
    /\ \E current_face \in {computeFace(face)} :
       \E face_pose \in {computeModelMatrix(face, rot)} :
       \E lambda \in {wReg(params.regularisation_weight_exponent)} :
       \E features \in
              {IF method = "solve_CPU"
               THEN FeatureLoop(face, current_face, face_pose, rot, projection,
                                hist.proj11, nFeatures, nShapeCoeffs,
                                nExpressionCoeffs, sparse_features)
               ELSE computeJacobianSparseFeatures(
                        face, current_face, face_pose, rot, projection,
                        hist.proj11, nFeatures, nShapeCoeffs,
                        nExpressionCoeffs, sparse_features)} :
       \E regularizer \in
              {IF method = "solve_CPU"
               THEN RegularizerLoop(face, nFeatures, nShapeCoeffs,
                                    nExpressionCoeffs, lambda)
               ELSE computeRegularizer(face, nFeatures, nShapeCoeffs,
                                       nExpressionCoeffs, lambda)} :
       \E ws \in {features.writes \o regularizer.writes} :
       \E rs \in {features.residual \o regularizer.residual} :
           /\ jacobian' = ApplyWrites(jacobian, ws, Len(ws))
           /\ residuals' = ApplyVecWrites(residuals, rs, Len(rs))
           /\ hist' = [hist EXCEPT !.builds = @ + 1,
                                   !.writes = [jacobian |-> ws, residuals |-> rs]]
           /\ face' = [face EXCEPT !.current_face = current_face]
    /\ FiniteMat(jacobian') /\ FiniteVec(residuals')
    /\ pc' = "linsolve"
    /\ UNCHANGED <<method, sparse_features, projection, params, iteration,
                   nUnknowns, nResiduals, result, ls>>
    /\ UNCHANGED omp

\* the clamp without its lower bound
ClampUpperOnly(c) == RMin(One, c)

\* std::max(0.0f, std::min(1.f, c))
Clamp01(c) == RMax(Zero, RMin(One, c))

\* float sca = 1;
sca == 1

\* the shape update multiplying by the standard deviation
ShapeUpdateTimesStdDev(coeff, delta, stddev) ==
    RSub(coeff, RMul(RMul(delta, One), stddev))

\* face.m_shape_coefficients[i] - result[7 + i] * sca / face.m_shape_std_dev[i]
ShapeUpdate(coeff, delta, stddev) == RSub(coeff, RDiv(RMul(delta, I(sca)), stddev))

\* the same for an expression coefficient, then the clamp
ExpressionUpdate(coeff, delta, stddev) ==
    Clamp01(RSub(coeff, RDiv(RMul(delta, I(sca)), stddev)))

\* Tail of one iteration of solve_CPU: the delta is copied back and applied.
UpdateCPU ==
    /\ pc = "ls_done"
    /\ method = "solve_CPU"
    /\ result' = ls.x
    /\ projection' = [projection EXCEPT ![1][1] = RSub(@, result'[1])]
    /\ face' = [face EXCEPT
          !.rotation = <<RSub(@[1], result'[2]), RSub(@[2], result'[3]),
                         RSub(@[3], result'[4])>>,
          !.translation = <<RSub(@[1], result'[5]), RSub(@[2], result'[6]),
                            RSub(@[3], result'[7])>>,
          !.m_shape_coefficients =
              SeqOf([k \in 1..nShapeCoeffs |->
                        ShapeUpdate(face.m_shape_coefficients[k], result'[7 + k],
                                    face.m_shape_std_dev[k])]),
          !.m_expression_coefficients =
              SeqOf([k \in 1..nExpressionCoeffs |->
                        ExpressionUpdate(face.m_expression_coefficients[k],
                                         result'[7 + nShapeCoeffs + k],
                                         face.m_expression_std_dev[k])])]
    /\ FiniteVec(face'.rotation) /\ FiniteVec(face'.translation)
    /\ FiniteVec(face'.m_shape_coefficients)
    /\ FiniteVec(face'.m_expression_coefficients)
    /\ Finite(projection'[1][1])
    /\ hist' = [hist EXCEPT !.updates = @ + 1, !.before = Snapshot]
    /\ iteration' = iteration + 1
    /\ pc' = "gn_loop"
    /\ UNCHANGED <<method, sparse_features, params, nUnknowns, nResiduals,
                   jacobian, residuals, ls>>
    /\ UNCHANGED omp

\* Tail of one iteration of solve: the delta is copied back and applied.
UpdateGPU ==
    /\ pc = "ls_done"
    /\ method = "solve"
    /\ result' = ls.x
    /\ projection' = [projection EXCEPT ![1][1] = RSub(@, result'[1])]
    /\ face' = [face EXCEPT
          !.rotation = <<RSub(@[1], result'[2]), RSub(@[2], result'[3]),
                         RSub(@[3], result'[4])>>,
          !.translation = <<RSub(@[1], result'[5]), RSub(@[2], result'[6]),
                            RSub(@[3], result'[7])>>,
          !.m_shape_coefficients =
              SeqOf([k \in 1..nShapeCoeffs |->
                        ShapeUpdate(face.m_shape_coefficients[k], result'[7 + k],
                                    face.m_shape_std_dev[k])]),
          !.m_expression_coefficients =
              SeqOf([k \in 1..nExpressionCoeffs |->
                        ExpressionUpdate(face.m_expression_coefficients[k],
                                         result'[7 + nShapeCoeffs + k],
                                         face.m_expression_std_dev[k])])]
    /\ FiniteVec(face'.rotation) /\ FiniteVec(face'.translation)
    /\ FiniteVec(face'.m_shape_coefficients)
    /\ FiniteVec(face'.m_expression_coefficients)
    /\ Finite(projection'[1][1])
    /\ hist' = [hist EXCEPT !.updates = @ + 1, !.before = Snapshot]
    /\ iteration' = iteration + 1
    /\ pc' = "gn_loop"
    /\ UNCHANGED <<method, sparse_features, params, nUnknowns, nResiduals,
                   jacobian, residuals, ls>>
    /\ UNCHANGED omp

\* The loop condition fails: the call returns.
Return ==
    /\ pc = "gn_loop"
    /\ ~LoopContinues(iteration, params.num_gn_iterations)
    /\ pc' = "returned"
    /\ UNCHANGED <<method, sparse_features, face, projection, params, iteration,
                   nUnknowns, nResiduals, jacobian, residuals, result, ls, hist>>
    /\ UNCHANGED omp

-----------------------------------------------------------------------------
(* The states a call starts from and the inputs it is given.               *)

MaxFeatures == 2
MaxShape == 2
MaxExpr == 1
MaxGN == 2

\* Neutral face: vertex 0 at (1, 1, 0), vertex 1 at (-1, 1, 0).
Neutral == <<<<One, One, Zero>>, <<I(-1), One, Zero>>>>

NumberOfVertices == Len(Neutral)

\* Column j of the shape basis moves x (j odd) or y (j even) of every
\* vertex; column j of the expression basis moves y (j odd) or x (j even).
ShapeBasis(n) ==
    SeqOf([row \in 1..(3 * NumberOfVertices) |->
              SeqOf([j \in 1..n |-> IF (row - 1) % 3 = (j - 1) % 2 THEN One ELSE Zero])])
ExpressionBasis(n) ==
    SeqOf([row \in 1..(3 * NumberOfVertices) |->
              SeqOf([j \in 1..n |-> IF (row - 1) % 3 = j % 2 THEN One ELSE Zero])])

\* A perspective projection with focal terms 1: w = -z.
Projection0 ==
    <<<<One, Zero, Zero, Zero>>,
      <<Zero, One, Zero, Zero>>,
      <<Zero, Zero, I(-1), I(-1)>>,
      <<Zero, Zero, I(-1), Zero>>>>

ShapeInit == {Zero, One}
ExpressionInit == {Zero, <<1, 2>>, <<3, 2>>}
StdDevs(n) == SeqOf([k \in 1..n |-> IF k % 2 = 1 THEN One ELSE I(2)])

Faces ==
    {[rotation |-> <<Zero, Zero, Zero>>,
      translation |-> <<Zero, Zero, I(-1)>>,
      m_shape_coefficients |-> SeqOf([k \in 1..nS |-> s0]),
      m_expression_coefficients |-> SeqOf([k \in 1..nE |-> e0]),
      m_shape_std_dev |-> StdDevs(nS),
      m_expression_std_dev |-> StdDevs(nE),
      m_shape_basis |-> ShapeBasis(nS),
      m_expression_basis |-> ExpressionBasis(nE),
      neutral |-> Neutral,
      m_number_of_vertices |-> NumberOfVertices,
      current_face |-> Neutral] :
        s0 \in ShapeInit, e0 \in ExpressionInit, nS \in 0..MaxShape, nE \in 0..MaxExpr}

PcgBudgets == {1, 2}
RegExponents == {0}

\* Where feature k of face f is seen when the face is not rotated.
Reprojection(f, proj, k) ==
    CHOOSE q \in
        {<<RDiv(proj_coord[1], proj_coord[4]), RDiv(proj_coord[2], proj_coord[4])>> :
             proj_coord \in
                 {GlmMulVec4(proj,
                             world_coord_of(computeModelMatrix(f, [R |-> Id3]),
                                            computeFace(f)[prior_local_ids[k] + 1]))}} : TRUE

\* The observed features: n features, each where the face is seen, moved
\* by off.
Observed(f, proj, n, off) ==
    CHOOSE q \in
        {SeqOf([k \in 1..n |-> <<RAdd(uv[k][1], off[1]), RAdd(uv[k][2], off[2])>>]) :
             uv \in {SeqOf([k \in 1..n |-> Reprojection(f, proj, k)])}} : TRUE

FeatureOffsets == {<<Zero, Zero>>, <<Zero, I(2)>>, <<Zero, I(-2)>>}

FeatureInputs(f, proj) ==
    {Observed(f, proj, n, off) : n \in 0..MaxFeatures, off \in FeatureOffsets}

Init ==
    /\ pc = "idle"
    /\ method = "none"
    /\ sparse_features = <<>>
    /\ face \in Faces
    /\ projection = Projection0
    /\ params \in [num_gn_iterations : 0..MaxGN,
                   num_pcg_iterations : PcgBudgets,
                   num_shape_coefficients : {Len(face.m_shape_coefficients)},
                   num_expression_coefficients : {Len(face.m_expression_coefficients)},
                   regularisation_weight_exponent : RegExponents,
                   kNearZero : {<<1, 100>>},
                   kTolerance : {<<1, 100>>}]
    /\ iteration = 0
    /\ nUnknowns = 0
    /\ nResiduals = 0
    /\ jacobian = <<>>
    /\ residuals = <<>>
    /\ result = <<>>
    /\ ls = NoLS
    /\ hist = NoHist
    /\ omp = NoTasks

Next ==
    \/ \E m \in {"solve", "solve_CPU"}, feats \in FeatureInputs(face, projection) :
           Call(m, feats)
    \/ \E rot \in RotationAnswers : Build(rot)
    \/ PCGInit
    \/ PCGIterate
    \/ PCGExit
    \/ UpdateCPU
    \/ UpdateGPU
    \/ Return

Spec == Init /\ [][Next]_vars

-----------------------------------------------------------------------------
(* Properties of a call of solve / solve_CPU.                              *)

Called == method \in {"solve", "solve_CPU"}

\* C1: a call of solve or solve_CPU with an empty feature sequence has
\* returned at once: the face (rotation, translation, shape and expression
\* coefficients, geometry) and all 16 projection entries are what they were
\* at entry, and no build, no linear solve and no update was performed.
C1_EmptyCallIsNoOp ==
    (Called /\ sparse_features = <<>>) =>
        /\ pc = "returned"
        /\ face = hist.entry.face
        /\ projection = hist.entry.projection
        /\ hist.builds = 0 /\ hist.solves = 0 /\ hist.updates = 0

\* An empty call has returned although iterations were asked for and the
\* face has a nonzero coefficient.
C1_Witness ==
    /\ Called /\ sparse_features = <<>> /\ pc = "returned"
    /\ params.num_gn_iterations > 0
    /\ \E k \in 1..nShapeCoeffs : face.m_shape_coefficients[k] # Zero

\* Steps a call can still take: 0 when it has returned, and every step of
\* the call lowers it.
C3_StepsLeft ==
    LET budget == Min(7 + nShapeCoeffs + nExpressionCoeffs, params.num_pcg_iterations)
        perIteration == budget + 5
        left == params.num_gn_iterations - iteration
    IN  CASE pc = "idle" -> params.num_gn_iterations * perIteration + 2
          [] pc = "gn_loop" -> left * perIteration + 1
          [] pc = "linsolve" -> (left - 1) * perIteration + budget + 4
          [] pc = "pcg_loop" -> (left - 1) * perIteration + budget + 3 - ls.i
          [] pc = "ls_done" -> (left - 1) * perIteration + 2
          [] OTHER -> 0

\* The builds, solves and updates done at each point of a call with
\* features: one of each per iteration, and num_gn_iterations of each at
\* the return.
C3_Counts ==
    (Called /\ sparse_features # <<>>) =>
        /\ hist.updates = iteration
        /\ C3_StepsLeft >= 0
        /\ pc = "gn_loop" => hist.builds = iteration /\ hist.solves = iteration
        /\ pc = "linsolve" => hist.builds = iteration + 1 /\ hist.solves = iteration
        /\ pc \in {"pcg_loop", "ls_done"} =>
               hist.builds = iteration + 1 /\ hist.solves = iteration + 1
        /\ pc = "returned" =>
               /\ iteration = params.num_gn_iterations
               /\ hist.builds = params.num_gn_iterations
               /\ hist.solves = params.num_gn_iterations
               /\ hist.updates = params.num_gn_iterations

\* C3: a call with a non-empty feature sequence terminates (every step
\* lowers the number of steps left) and returns after exactly
\* num_gn_iterations iterations of one build, one linear solve and one
\* update each, whatever the residuals and deltas were.
C3_ExactlyNumGnIterations == []C3_Counts /\ [][C3_StepsLeft' < C3_StepsLeft]_vars

\* A call with features has returned after two full iterations.
C3_Witness ==
    /\ Called /\ sparse_features # <<>> /\ pc = "returned"
    /\ params.num_gn_iterations = 2 /\ hist.updates = 2

RAbs(a) == <<Abs(a[1]), a[2]>>

C5_Case ==
    /\ Called /\ sparse_features = <<>>
    /\ nShapeCoeffs = 2 /\ nExpressionCoeffs = 0
    /\ params.num_gn_iterations = 1

\* C5 as stated: after a single-iteration solve with no features and two
\* nonzero shape coefficients, each coefficient is strictly smaller in
\* magnitude than before, its sign kept or zero.
C5_PulledTowardZero ==
    (C5_Case /\ pc = "returned"
        /\ \A k \in 1..2 : hist.entry.face.m_shape_coefficients[k] # Zero) =>
        \A k \in 1..2 :
            /\ RLt(RAbs(face.m_shape_coefficients[k]),
                   RAbs(hist.entry.face.m_shape_coefficients[k]))
            /\ face.m_shape_coefficients[k][1]
                   * hist.entry.face.m_shape_coefficients[k][1] >= 0

\* C5 (amended): a single-iteration solve with no features, nShape = 2 and
\* nExpr = 0 returns at once with both shape coefficients exactly as they
\* were: the regularizer is not applied and nothing is pulled toward zero.
C5_ShapeUntouchedWithoutFeatures ==
    C5_Case =>
        /\ pc = "returned"
        /\ hist.updates = 0
        /\ \A k \in 1..2 :
               face.m_shape_coefficients[k] = hist.entry.face.m_shape_coefficients[k]

\* Such a call has returned with both coefficients nonzero.
C5_Witness ==
    /\ C5_Case /\ pc = "returned"
    /\ \A k \in 1..2 : face.m_shape_coefficients[k] # Zero

\* The reprojection residual of every feature, as built last, is zero.
FeatureResidualsZero == \A k \in 1..(2 * nFeatures) : residuals[k] = Zero

ExpressionIn01(f) ==
    \A k \in 1..Len(f.m_expression_coefficients) :
        RLe(Zero, f.m_expression_coefficients[k])
            /\ RLe(f.m_expression_coefficients[k], One)

SameParameters(f, g) ==
    /\ f.rotation = g.rotation
    /\ f.translation = g.translation
    /\ f.m_shape_coefficients = g.m_shape_coefficients
    /\ f.m_expression_coefficients = g.m_expression_coefficients

\* C6: in an iteration whose feature residuals are all zero, the right-hand
\* side J^T r of the linear solve is the zero vector and the PCG delta is the
\* zero vector at every point of the solve; when the expression coefficients
\* were in [0,1] as well, the update that follows leaves focal, rotation,
\* translation, shape and expression coefficients at their values.
C6_ConvergedStateIsFixed ==
    (Called /\ sparse_features # <<>> /\ hist.builds >= 1 /\ FeatureResidualsZero) =>
        /\ pc \in {"pcg_loop", "ls_done"} =>
               ls.rhs = ZeroVec(nUnknowns) /\ ls.x = ZeroVec(nUnknowns)
        /\ (pc \in {"gn_loop", "returned"} /\ ExpressionIn01(hist.before.face)) =>
               /\ result = ZeroVec(nUnknowns)
               /\ projection = hist.before.projection
               /\ SameParameters(face, hist.before.face)

\* Two iterations were run on a converged state with a nonzero shape
\* coefficient (a nonzero regularizer diagonal), and the call has returned.
C6_Witness ==
    /\ Called /\ sparse_features # <<>> /\ pc = "returned"
    /\ hist.updates = 2 /\ FeatureResidualsZero
    /\ ExpressionIn01(hist.before.face)
    /\ \E k \in 1..nShapeCoeffs : face.m_shape_coefficients[k] # Zero

C10_InMatrix(w) == w.row \in 0..(nResiduals - 1) /\ w.col \in 0..(nUnknowns - 1)

C10_JacobianWrite(w) ==
    /\ C10_InMatrix(w)
    /\ w.of = "feature" => w.i \in 0..(nFeatures - 1) /\ w.row \in {2 * w.i, 2 * w.i + 1}
    /\ w.of = "shape" =>
           /\ w.i \in 0..(nShapeCoeffs - 1)
           /\ w.row = 2 * nFeatures + w.i /\ w.col = 7 + w.i
    /\ w.of = "expression" =>
           /\ w.i \in 0..(nExpressionCoeffs - 1)
           /\ w.row = 2 * nFeatures + nShapeCoeffs + w.i
           /\ w.col = 7 + nShapeCoeffs + w.i

C10_ResidualWrite(w) ==
    /\ w.row \in 0..(nResiduals - 1)
    /\ w.of = "feature" => w.i \in 0..(nFeatures - 1) /\ w.row \in {2 * w.i, 2 * w.i + 1}
    /\ w.of = "shape" =>
           w.i \in 0..(nShapeCoeffs - 1) /\ w.row = 2 * nFeatures + w.i /\ w.val = Zero
    /\ w.of = "expression" =>
           /\ w.i \in 0..(nExpressionCoeffs - 1)
           /\ w.row = 2 * nFeatures + nShapeCoeffs + w.i /\ w.val = Zero

\* C10: in solve_CPU, once an iteration's build is done: every write of the
\* build is inside the (2*nFeatures+nShape+nExpr) x (7+nShape+nExpr) matrix;
\* feature i writes residual and Jacobian entries in rows 2i and 2i+1 and in
\* no other row, and writes both of these residual rows; the regularizer
\* writes row 2*nFeatures+i only at column 7+i (shape) and row
\* 2*nFeatures+nShape+i only at column 7+nShape+i (expression), with residual
\* 0; and every other entry of the regularization rows of the matrix is zero.
C10_BuildLayout ==
    (method = "solve_CPU" /\ sparse_features # <<>> /\ hist.builds >= 1) =>
        LET ws == hist.writes.jacobian
            rs == hist.writes.residuals
            regRows == (2 * nFeatures)..(nResiduals - 1)
        IN  /\ nResiduals = 2 * nFeatures + nShapeCoeffs + nExpressionCoeffs
            /\ nUnknowns = 7 + nShapeCoeffs + nExpressionCoeffs
            /\ Len(jacobian) = nResiduals /\ Len(residuals) = nResiduals
            /\ \A k \in 1..Len(ws) : C10_JacobianWrite(ws[k])
            /\ \A k \in 1..Len(rs) : C10_ResidualWrite(rs[k])
            /\ \A i \in 0..(nFeatures - 1) : \A row \in {2 * i, 2 * i + 1} :
                   /\ \E k \in 1..Len(rs) :
                          rs[k].of = "feature" /\ rs[k].i = i /\ rs[k].row = row
                   /\ \E k \in 1..Len(ws) :
                          ws[k].of = "feature" /\ ws[k].i = i /\ ws[k].row = row
            /\ \A row \in regRows :
                   /\ residuals[row + 1] = Zero
                   /\ Len(jacobian[row + 1]) = nUnknowns
                   /\ \A col \in 0..(nUnknowns - 1) :
                          col # 7 + (row - 2 * nFeatures) =>
                              jacobian[row + 1][col + 1] = Zero

\* The second build of a solve_CPU call with two features, two shape and
\* one expression coefficient is done, with a nonzero regularizer entry.
C10_Witness ==
    /\ method = "solve_CPU" /\ hist.builds = 2
    /\ nFeatures = 2 /\ nShapeCoeffs = 2 /\ nExpressionCoeffs = 1
    /\ \E row \in (2 * nFeatures)..(nResiduals - 1) :
           jacobian[row + 1][7 + (row - 2 * nFeatures) + 1] # Zero

\* Between the build and the update of an iteration.
InIteration == pc \in {"linsolve", "pcg_loop", "ls_done"}

\* The values the update of the previous iteration produced (those at entry
\* in the first iteration): result still holds that iteration's delta.
C11_Shape(i) ==
    IF hist.updates = 0 THEN hist.entry.face.m_shape_coefficients[i]
    ELSE RSub(hist.before.face.m_shape_coefficients[i],
              RDiv(result[7 + i], hist.before.face.m_shape_std_dev[i]))

C11_Expression(i) ==
    IF hist.updates = 0 THEN hist.entry.face.m_expression_coefficients[i]
    ELSE RMax(Zero, RMin(One,
             RSub(hist.before.face.m_expression_coefficients[i],
                  RDiv(result[7 + nShapeCoeffs + i],
                       hist.before.face.m_expression_std_dev[i]))))

C11_Focal ==
    IF hist.updates = 0 THEN hist.entry.projection[1][1]
    ELSE RSub(hist.before.projection[1][1], result[1])

C11_Pose(k) ==
    IF hist.updates = 0
    THEN <<hist.entry.face.rotation[k], hist.entry.face.translation[k]>>
    ELSE <<RSub(hist.before.face.rotation[k], result[1 + k]),
           RSub(hist.before.face.translation[k], result[4 + k])>>

\* (1/sigma)^2 * coeff * lambda * 2
C11_Diagonal(coeff, stddev) ==
    RMul(RMul(RMul(RMul(RDiv(One, stddev), RDiv(One, stddev)), coeff),
              wReg(params.regularisation_weight_exponent)), I(2))

C11_State ==
    (Called /\ sparse_features # <<>> /\ InIteration) =>
        /\ hist.builds = hist.updates + 1 /\ iteration = hist.updates
        /\ projection[1][1] = C11_Focal
        /\ \A k \in 1..3 : <<face.rotation[k], face.translation[k]>> = C11_Pose(k)
        /\ \A i \in 1..nShapeCoeffs :
               /\ face.m_shape_coefficients[i] = C11_Shape(i)
               /\ jacobian[2 * nFeatures + i][7 + i] =
                      C11_Diagonal(C11_Shape(i), face.m_shape_std_dev[i])
        /\ \A i \in 1..nExpressionCoeffs :
               /\ face.m_expression_coefficients[i] = C11_Expression(i)
               /\ jacobian[2 * nFeatures + nShapeCoeffs + i][7 + nShapeCoeffs + i] =
                      C11_Diagonal(C11_Expression(i), face.m_expression_std_dev[i])
        /\ face.current_face = computeFace(face)
        /\ pc = "linsolve" =>
               \E rot \in RotationAnswers :
                   \E rows \in {FeatureLoop(face, face.current_face,
                                            computeModelMatrix(face, rot), rot,
                                            projection, hist.proj11, nFeatures,
                                            nShapeCoeffs, nExpressionCoeffs,
                                            sparse_features)} :
                       /\ SubSeq(hist.writes.jacobian, 1, Len(rows.writes)) = rows.writes
                       /\ SubSeq(hist.writes.residuals, 1, Len(rows.residual))
                              = rows.residual

C11_Step ==
    Called =>
        /\ hist'.builds # hist.builds =>
               /\ pc = "gn_loop" /\ hist'.builds = hist.builds + 1
               /\ hist.updates = hist.builds /\ hist.solves = hist.builds
        /\ hist'.solves # hist.solves =>
               /\ pc = "linsolve" /\ hist'.solves = hist.solves + 1
               /\ hist.builds = hist.solves + 1 /\ hist.updates = hist.solves
        /\ hist'.updates # hist.updates =>
               /\ pc = "ls_done" /\ hist'.updates = hist.updates + 1
               /\ hist.solves = hist.updates + 1 /\ hist.builds = hist.updates + 1
               /\ result' = ls.x

\* C11: the iterations are strictly sequential: build k comes after update
\* k-1, solve k after build k, update k after solve k and applies its delta;
\* and iteration k builds from the state update k-1 left: pose, focal and
\* coefficients are the updated ones, the geometry is recomputed from them,
\* the feature rows are those of the current pose, focal and geometry, and
\* each regularization diagonal entry is (1/sigma_i)^2 * coeff_i * lambda * 2
\* of the updated coefficient, never that of an earlier iteration.
C11_IterationsBuildFromPreviousUpdate == []C11_State /\ [][C11_Step]_vars

\* The second iteration is built after an update that moved the focal entry
\* and a shape coefficient, so its regularization diagonal differs from the
\* first iteration's.
C11_Witness ==
    /\ Called /\ pc = "linsolve" /\ hist.updates = 1 /\ nShapeCoeffs >= 1
    /\ projection[1][1] # hist.entry.projection[1][1]
    /\ \E i \in 1..nShapeCoeffs :
           /\ face.m_shape_coefficients[i] # hist.entry.face.m_shape_coefficients[i]
           /\ jacobian[2 * nFeatures + i][7 + i] #
                  C11_Diagonal(hist.entry.face.m_shape_coefficients[i],
                               face.m_shape_std_dev[i])

-----------------------------------------------------------------------------
(* The update step on its own: the state after a linear solve of the only  *)
(* iteration, for a range of deltas and coefficient values.                *)

DeltaEntries == {I(-1), Zero, I(2)}
RotationDeltas == {<<Zero, Zero, Zero>>, <<I(1), I(2), I(3)>>}
TranslationDeltas == {<<Zero, Zero, Zero>>, <<I(4), I(5), I(6)>>}

Tuples(n, S) == {SeqOf(f) : f \in [1..n -> S]}

Deltas(nS, nE) ==
    {<<focal>> \o rot \o tr \o sh \o ex :
        focal \in DeltaEntries, rot \in RotationDeltas, tr \in TranslationDeltas,
        sh \in Tuples(nS, DeltaEntries), ex \in Tuples(nE, DeltaEntries)}

InitUpdate ==
    /\ pc = "ls_done"
    /\ method \in {"solve", "solve_CPU"}
    /\ face \in Faces
    /\ projection = Projection0
    /\ sparse_features = Observed(face, projection, 1, <<Zero, Zero>>)
    /\ params \in [num_gn_iterations : {1},
                   num_pcg_iterations : {1},
                   num_shape_coefficients : {Len(face.m_shape_coefficients)},
                   num_expression_coefficients : {Len(face.m_expression_coefficients)},
                   regularisation_weight_exponent : RegExponents,
                   kNearZero : {<<1, 100>>},
                   kTolerance : {<<1, 100>>}]
    /\ iteration = 0
    /\ nUnknowns = 7 + (nShapeCoeffs + nExpressionCoeffs)
    /\ nResiduals = 2 + (nShapeCoeffs + nExpressionCoeffs)
    /\ jacobian = ZeroMat(nResiduals, nUnknowns)
    /\ residuals = ZeroVec(nResiduals)
    /\ result = ZeroVec(nUnknowns)
    /\ \E x \in Deltas(nShapeCoeffs, nExpressionCoeffs) :
           ls = [NoLS EXCEPT !.x = x, !.exit = "count"]
    /\ hist = [NoHist EXCEPT !.builds = 1, !.solves = 1,
                             !.proj11 = projection[2][2], !.entry = Snapshot]
    /\ omp = NoTasks

NextUpdate ==
    \/ UpdateCPU
    \/ UpdateGPU
    \/ Return

SpecUpdate == InitUpdate /\ [][NextUpdate]_vars

Updated == hist.updates >= 1

\* expr[i] - delta[7+nShape+i] / exprStdDev[i], i counted from 1
C2_Raw(i) ==
    RSub(hist.before.face.m_expression_coefficients[i],
         RDiv(result[7 + nShapeCoeffs + i],
              hist.before.face.m_expression_std_dev[i]))

\* C2: after the update step, every expression coefficient lies in [0,1]:
\* it is 0 when expr[i] - delta[7+nShape+i]/exprStdDev[i] is below 0, 1 when
\* that value is above 1, and that value otherwise.
C2_ExpressionClamped ==
    Updated =>
        /\ Len(face.m_expression_coefficients) = nExpressionCoeffs
        /\ \A i \in 1..nExpressionCoeffs :
               LET c == face.m_expression_coefficients[i]
                   raw == C2_Raw(i)
               IN  /\ RLe(Zero, c) /\ RLe(c, One)
                   /\ RLt(raw, Zero) => c = Zero
                   /\ RLt(One, raw) => c = One
                   /\ (RLe(Zero, raw) /\ RLe(raw, One)) => c = raw

\* An update has clamped an expression coefficient from below zero.
C2_Witness ==
    /\ Updated /\ nExpressionCoeffs >= 1
    /\ RLt(C2_Raw(1), Zero)
    /\ face.m_expression_coefficients[1] = Zero

\* C4: the update applies the delta by the fixed layout, in solve and in
\* solve_CPU alike: projection[0][0] decreases by delta[0]; rotation x,y,z
\* by delta[1..3]; translation x,y,z by delta[4..6]; shape[i] becomes
\* shape[i] - delta[7+i]/shapeStdDev[i], unclamped; no other projection
\* entry, no standard deviation and no basis value changes.
C4_UpdateLayout ==
    (Updated /\ method \in {"solve", "solve_CPU"}) =>
        LET old == hist.before.face
            oldProjection == hist.before.projection
        IN  /\ Len(result) = 7 + nShapeCoeffs + nExpressionCoeffs
            /\ projection[1][1] = RSub(oldProjection[1][1], result[1])
            /\ \A c \in 1..4 : \A r \in 1..4 :
                   <<c, r>> # <<1, 1>> => projection[c][r] = oldProjection[c][r]
            /\ \A k \in 1..3 :
                   /\ face.rotation[k] = RSub(old.rotation[k], result[1 + k])
                   /\ face.translation[k] = RSub(old.translation[k], result[4 + k])
            /\ Len(face.m_shape_coefficients) = nShapeCoeffs
            /\ \A i \in 1..nShapeCoeffs :
                   face.m_shape_coefficients[i] =
                       RSub(old.m_shape_coefficients[i],
                            RDiv(result[7 + i], old.m_shape_std_dev[i]))
            /\ face.m_shape_std_dev = old.m_shape_std_dev
            /\ face.m_expression_std_dev = old.m_expression_std_dev
            /\ face.m_shape_basis = old.m_shape_basis
            /\ face.m_expression_basis = old.m_expression_basis
            /\ face.neutral = old.neutral

\* solve has applied a delta that moves a shape coefficient with standard
\* deviation 2 out of [0,1], and nonzero rotation and translation deltas.
C4_Witness ==
    /\ Updated /\ method = "solve" /\ nShapeCoeffs = 2
    /\ result[2] # Zero /\ result[5] # Zero /\ result[9] # Zero
    /\ RLt(face.m_shape_coefficients[2], Zero)

-----------------------------------------------------------------------------
(* The linear solvers on their own: any Jacobian and residual vector of a  *)
(* small size, either solver, any iteration budget.                        *)

MaxPCG == 3
MaxRows == 2
MaxCols == 2
CGEntries == {I(0), I(1), I(2)}
CGResiduals == {I(-3), I(-2), I(0), I(1)}
KNearZeroSet == {<<1, 100>>, One}
KToleranceSet == {<<1, 100>>, <<1, 10>>}

Matrices(rows, cols) ==
    {SeqOf([i \in 1..rows |-> SeqOf(m[i])]) : m \in [1..rows -> [1..cols -> CGEntries]]}
Vectors(rows) == {SeqOf(v) : v \in [1..rows -> CGResiduals]}

InitCG ==
    /\ pc = "linsolve"
    /\ method \in {"solveUpdatePCG", "solveUpdateCG"}
    /\ sparse_features = <<>>
    /\ face = <<>>
    /\ projection = <<>>
    /\ params \in [num_pcg_iterations : 0..MaxPCG,
                   kNearZero : KNearZeroSet,
                   kTolerance : KToleranceSet]
    /\ iteration = 0
    /\ nResiduals \in 1..MaxRows
    /\ nUnknowns \in 1..MaxCols
    /\ jacobian \in Matrices(nResiduals, nUnknowns)
    /\ residuals \in Vectors(nResiduals)
    /\ result = <<>>
    /\ ls = NoLS
    /\ hist = NoHist
    /\ omp = NoTasks

NextCG == PCGInit \/ PCGIterate \/ PCGExit \/ CGInit \/ CGIterate \/ CGExit

SpecCG == InitCG /\ [][NextCG]_vars

LinearSolve == method \in {"solveUpdatePCG", "solveUpdateCG"}
InLoop == pc \in {"pcg_loop", "cg_loop"}

\* J^T J, its determinants, and whether it is positive definite (every
\* leading principal minor positive).
Gram(J, nU) ==
    SeqOf([a \in 1..nU |->
              SeqOf([b \in 1..nU |->
                        RSum(SeqOf([row \in 1..Len(J) |-> RMul(J[row][a], J[row][b])]))])])

MinorOf(A, n, j) ==
    SeqOf([r \in 1..(n - 1) |->
              SeqOf([c \in 1..(n - 1) |-> A[r + 1][IF c < j THEN c ELSE c + 1]])])

RECURSIVE Det(_, _)
Det(A, n) ==
    IF n = 0 THEN One
    ELSE IF n = 1 THEN A[1][1]
    ELSE RSum(SeqOf([j \in 1..n |->
                        RMul(RMul(I(IF j % 2 = 1 THEN 1 ELSE -1), A[1][j]),
                             Det(MinorOf(A, n, j), n - 1))]))

PositiveDefinite(A, n) == \A k \in 1..n : RLt(Zero, Det(A, k))

SPD == PositiveDefinite(Gram(jacobian, nUnknowns), nUnknowns)

\* C7 as stated: with J^T J positive definite, the residual inner product
\* tracked by the solver never increases from one inner iteration to the
\* next.
C7_DotsNonIncreasing ==
    (LinearSolve /\ SPD) =>
        \A k \in 1..(Len(ls.dots) - 1) : RLe(ls.dots[k + 1], ls.dots[k])

\* 1/2 x^T A x - b^T x for A = alphaLHS J^T J and b the right-hand side
Energy ==
    RSub(RMul(<<1, 2>>, Dot(ls.x, ApplyJTJ(jacobian, ls.x, nUnknowns))),
         Dot(ls.rhs, ls.x))

C7_StepLowersEnergy ==
    (LinearSolve /\ SPD /\ InLoop /\ ls'.steps = ls.steps + 1
        /\ Finite(Energy) /\ Finite(Energy')) => RLe(Energy', Energy)

\* C7 (amended): with J^T J positive definite, the quadratic
\* 1/2 x^T (2 J^T J) x - b^T x that both solvers minimise never increases
\* from one inner iteration to the next; the residual inner product may.
C7_EnergyNonIncreasing == [][C7_StepLowersEnergy]_vars

\* Two steps were taken on a positive definite system and the residual
\* inner product rose at the first of them.
C7_Witness ==
    /\ LinearSolve /\ SPD /\ ls.steps >= 2
    /\ RLt(ls.dots[1], ls.dots[2])
    /\ Finite(Energy)
    /\ RLt(Energy, Zero)

C8_Budget == Min(nUnknowns, params.num_pcg_iterations)

C8_StepsLeft ==
    CASE pc = "linsolve" -> C8_Budget + 2
      [] InLoop -> C8_Budget + 1 - ls.i
      [] OTHER -> 0

C8_State ==
    (LinearSolve /\ pc # "linsolve") =>
        /\ C8_StepsLeft >= 0
        /\ ls.steps <= C8_Budget
        /\ Len(ls.dots) = ls.steps + 1
        /\ ls.steps = 0 => ls.x = ZeroVec(nUnknowns)
        /\ \A k \in 2..ls.steps : ~RLt(ls.dots[k], params.kTolerance)
        /\ InLoop => ls.exit = "none" /\ ls.i = ls.steps
        /\ pc = "ls_done" =>
               /\ ls.exit \in {"break", "budget"}
               /\ ls.exit = "break" <=>
                      (ls.steps >= 1 /\ RLt(ls.dots[ls.steps + 1], params.kTolerance))
               /\ ls.exit = "budget" => ls.steps = C8_Budget
        /\ FiniteVec(ApplyJTJ(jacobian, ls.x, nUnknowns)) =>
               ls.r = Axpy(I(-1), ApplyJTJ(jacobian, ls.x, nUnknowns), ls.rhs)

\* C8: both solvers start from x = 0 and terminate after at most
\* min(nUnknowns, num_pcg_iterations) passes; the loop is left early exactly
\* when the inner product computed after a step is below kTolerance, and
\* runs the full budget otherwise; the x returned holds every step taken,
\* that of the exiting pass included (the residual is that of x).
C8_TerminatesWithinBudget == []C8_State /\ [][C8_StepsLeft' < C8_StepsLeft]_vars

\* A solver has left its loop by the break at its first pass, with the
\* budget not used up and x moved.
C8_Witness ==
    /\ LinearSolve /\ pc = "ls_done" /\ ls.exit = "break"
    /\ ls.steps = 1 /\ ls.steps < C8_Budget
    /\ ls.x # ZeroVec(nUnknowns)

\* C9: in every pass of either solver both divisors, that of the step
\* length and that of bk, are at least kNearZero, hence nonzero for
\* kNearZero > 0; this includes a search direction p with p^T J^T J p = 0.
C9_DivisorsFloored ==
    (LinearSolve /\ pc # "linsolve") =>
        /\ RLt(Zero, params.kNearZero)
        /\ Len(ls.akDen) = ls.steps
        /\ \A k \in 1..Len(ls.akDen) :
               RLe(params.kNearZero, ls.akDen[k]) /\ ls.akDen[k] # Zero
        /\ \A k \in 1..Len(ls.bkDen) :
               RLe(params.kNearZero, ls.bkDen[k]) /\ ls.bkDen[k] # Zero

\* A pass was made with p^T J^T J p = 0 (the loop was left at once, so p
\* is still the direction of that pass) and divided by kNearZero; or bk was
\* computed with an old inner product below kNearZero.
C9_Witness ==
    /\ LinearSolve /\ pc = "ls_done"
    /\ \/ /\ ls.exit = "break" /\ ls.steps = 1
          /\ Dot(ls.p, ApplyJTJ(jacobian, ls.p, nUnknowns)) = Zero
          /\ ls.akDen[1] = params.kNearZero
       \/ /\ Len(ls.bkDen) >= 1
          /\ RLt(ls.dots[1], params.kNearZero)
          /\ ls.bkDen[1] = params.kNearZero


-----------------------------------------------------------------------------
(* The two omp parallel for loops of the update, one task per index i, a   *)
(* task being the two statements of the loop body; the tasks of a loop     *)
(* interleave freely and the next loop starts when all of them are done.   *)
(* omp.task[i+1] is the position of task i, omp.c[i+1] its local c, and    *)
(* omp.log the accesses made to the shared arrays: [loop, task, kind,      *)
(* array, index], indices counted from 0 as in the code.                   *)

MaxTasks == 3

\* the coefficient of the element before
PreviousIndex(i) == IF i = 0 THEN i ELSE i - 1

\* face.m_shape_coefficients[i], face.m_expression_coefficients[i]: the
\* element a task reads
OwnIndex(i) == i

Access(loop, i, kind, array, index) ==
    [loop |-> loop, task |-> i, kind |-> kind, array |-> array, index |-> index]

Fresh(n) == [task |-> SeqOf([k \in 1..n |-> "todo"]),
             c |-> SeqOf([k \in 1..n |-> Zero]),
             log |-> omp.log]

\* auto c = face.m_shape_coefficients[i] - result[7 + i] * sca / face.m_shape_std_dev[i];
ShapeCompute(i) ==
    /\ pc = "par_shape"
    /\ omp.task[i + 1] = "todo"
    /\ omp' = [omp EXCEPT
          !.task[i + 1] = "computed",
          !.c[i + 1] = ShapeUpdate(face.m_shape_coefficients[OwnIndex(i) + 1],
                                   result[7 + i + 1], face.m_shape_std_dev[i + 1]),
          !.log = @ \cup {Access("shape", i, "read", "m_shape_coefficients", OwnIndex(i)),
                          Access("shape", i, "read", "result", 7 + i),
                          Access("shape", i, "read", "m_shape_std_dev", i)}]
    /\ Finite(omp'.c[i + 1])
    /\ UNCHANGED <<pc, method, sparse_features, face, projection, params, iteration,
                   nUnknowns, nResiduals, jacobian, residuals, result, ls, hist>>

\* face.m_shape_coefficients[i] = c;
ShapeStore(i) ==
    /\ pc = "par_shape"
    /\ omp.task[i + 1] = "computed"
    /\ face' = [face EXCEPT !.m_shape_coefficients[i + 1] = omp.c[i + 1]]
    /\ omp' = [omp EXCEPT
          !.task[i + 1] = "done",
          !.log = @ \cup {Access("shape", i, "write", "m_shape_coefficients", i)}]
    /\ UNCHANGED <<pc, method, sparse_features, projection, params, iteration,
                   nUnknowns, nResiduals, jacobian, residuals, result, ls, hist>>

\* The end of the first parallel for: every task is done, the second starts.
ShapeJoin ==
    /\ pc = "par_shape"
    /\ \A k \in 1..nShapeCoeffs : omp.task[k] = "done"
    /\ omp' = Fresh(nExpressionCoeffs)
    /\ pc' = "par_expression"
    /\ UNCHANGED <<method, sparse_features, face, projection, params, iteration,
                   nUnknowns, nResiduals, jacobian, residuals, result, ls, hist>>

\* auto c = face.m_expression_coefficients[i]
\*              - result[7 + nShapeCoeffs + i] * sca / face.m_expression_std_dev[i];
ExpressionCompute(i) ==
    /\ pc = "par_expression"
    /\ omp.task[i + 1] = "todo"
    /\ omp' = [omp EXCEPT
          !.task[i + 1] = "computed",
          !.c[i + 1] = RSub(face.m_expression_coefficients[OwnIndex(i) + 1],
                            RDiv(RMul(result[7 + nShapeCoeffs + i + 1], I(sca)),
                                 face.m_expression_std_dev[i + 1])),
          !.log = @ \cup {Access("expression", i, "read", "m_expression_coefficients",
                                 OwnIndex(i)),
                          Access("expression", i, "read", "result", 7 + nShapeCoeffs + i),
                          Access("expression", i, "read", "m_expression_std_dev", i)}]
    /\ Finite(omp'.c[i + 1])
    /\ UNCHANGED <<pc, method, sparse_features, face, projection, params, iteration,
                   nUnknowns, nResiduals, jacobian, residuals, result, ls, hist>>

\* face.m_expression_coefficients[i] = std::max(0.0f, std::min(1.f, c));
ExpressionStore(i) ==
    /\ pc = "par_expression"
    /\ omp.task[i + 1] = "computed"
    /\ face' = [face EXCEPT !.m_expression_coefficients[i + 1] = Clamp01(omp.c[i + 1])]
    /\ omp' = [omp EXCEPT
          !.task[i + 1] = "done",
          !.log = @ \cup {Access("expression", i, "write", "m_expression_coefficients", i)}]
    /\ UNCHANGED <<pc, method, sparse_features, projection, params, iteration,
                   nUnknowns, nResiduals, jacobian, residuals, result, ls, hist>>

\* The end of the second parallel for.
ExpressionJoin ==
    /\ pc = "par_expression"
    /\ \A k \in 1..nExpressionCoeffs : omp.task[k] = "done"
    /\ pc' = "par_done"
    /\ UNCHANGED <<method, sparse_features, face, projection, params, iteration,
                   nUnknowns, nResiduals, jacobian, residuals, result, ls, hist, omp>>

ParallelDeltaEntries == {I(-1), I(2)}

ParallelFaces ==
    {[rotation |-> <<Zero, Zero, Zero>>,
      translation |-> <<Zero, Zero, I(-1)>>,
      m_shape_coefficients |-> SeqOf([k \in 1..nS |-> RAdd(s0, I(k))]),
      m_expression_coefficients |-> SeqOf([k \in 1..nE |-> RAdd(e0, Q(k - 1, 4))]),
      m_shape_std_dev |-> StdDevs(nS),
      m_expression_std_dev |-> StdDevs(nE),
      m_shape_basis |-> ShapeBasis(nS),
      m_expression_basis |-> ExpressionBasis(nE),
      neutral |-> Neutral,
      m_number_of_vertices |-> NumberOfVertices,
      current_face |-> Neutral] :
        s0 \in ShapeInit, e0 \in ExpressionInit, nS \in 0..MaxTasks, nE \in 0..MaxTasks}

\* The state at the first parallel for of the only iteration: the delta is
\* in result, focal, rotation and translation are already updated.
InitParallel ==
    /\ pc = "par_shape"
    /\ method \in {"solve", "solve_CPU"}
    /\ face \in ParallelFaces
    /\ projection = Projection0
    /\ sparse_features = Observed(face, projection, 1, <<Zero, Zero>>)
    /\ params \in [num_gn_iterations : {1},
                   num_pcg_iterations : {1},
                   num_shape_coefficients : {Len(face.m_shape_coefficients)},
                   num_expression_coefficients : {Len(face.m_expression_coefficients)},
                   regularisation_weight_exponent : RegExponents,
                   kNearZero : {<<1, 100>>},
                   kTolerance : {<<1, 100>>}]
    /\ iteration = 0
    /\ nUnknowns = 7 + (nShapeCoeffs + nExpressionCoeffs)
    /\ nResiduals = 2 + (nShapeCoeffs + nExpressionCoeffs)
    /\ jacobian = ZeroMat(nResiduals, nUnknowns)
    /\ residuals = ZeroVec(nResiduals)
    /\ \E sh \in Tuples(nShapeCoeffs, ParallelDeltaEntries),
          ex \in Tuples(nExpressionCoeffs, ParallelDeltaEntries) :
           result = ZeroVec(7) \o sh \o ex
    /\ ls = [NoLS EXCEPT !.x = result, !.exit = "count"]
    /\ hist = [NoHist EXCEPT !.builds = 1, !.solves = 1,
                             !.proj11 = projection[2][2], !.entry = Snapshot,
                             !.before = Snapshot]
    /\ omp = [task |-> SeqOf([k \in 1..nShapeCoeffs |-> "todo"]),
              c |-> SeqOf([k \in 1..nShapeCoeffs |-> Zero]),
              log |-> {}]

NextParallel ==
    \/ \E i \in 0..(nShapeCoeffs - 1) : ShapeCompute(i)
    \/ \E i \in 0..(nShapeCoeffs - 1) : ShapeStore(i)
    \/ ShapeJoin
    \/ \E i \in 0..(nExpressionCoeffs - 1) : ExpressionCompute(i)
    \/ \E i \in 0..(nExpressionCoeffs - 1) : ExpressionStore(i)
    \/ ExpressionJoin

SpecParallel == InitParallel /\ [][NextParallel]_vars

InParallel == pc \in {"par_shape", "par_expression", "par_done"}

\* What task a.task of its loop may touch: coefficient i, standard deviation
\* i and its own delta entry for reading, coefficient i for writing.
C12_OwnElement(a) ==
    LET coefficients == IF a.loop = "shape" THEN "m_shape_coefficients"
                        ELSE "m_expression_coefficients"
        stddevs == IF a.loop = "shape" THEN "m_shape_std_dev"
                   ELSE "m_expression_std_dev"
        delta == IF a.loop = "shape" THEN 7 + a.task ELSE 7 + nShapeCoeffs + a.task
    IN  /\ a.loop \in {"shape", "expression"}
        /\ a.task \in 0..((IF a.loop = "shape" THEN nShapeCoeffs
                           ELSE nExpressionCoeffs) - 1)
        /\ \/ a.kind = "read" /\ a.array = coefficients /\ a.index = a.task
           \/ a.kind = "read" /\ a.array = stddevs /\ a.index = a.task
           \/ a.kind = "read" /\ a.array = "result" /\ a.index = delta
           \/ a.kind = "write" /\ a.array = coefficients /\ a.index = a.task

\* Two accesses of different tasks to one location are both reads.
C12_NoConflict(a, b) ==
    (<<a.loop, a.task>> # <<b.loop, b.task>> /\ a.array = b.array /\ a.index = b.index)
        => (a.kind = "read" /\ b.kind = "read")

C12_ShapeDone(i) == pc # "par_shape" \/ omp.task[i] = "done"
C12_ExpressionDone(i) ==
    pc = "par_done" \/ (pc = "par_expression" /\ omp.task[i] = "done")

\* C12: in both parallel for loops the task for index i reads only
\* coefficient i, standard deviation i and its own delta entry and writes
\* only coefficient i; no location written by a task is accessed by another
\* task; and under every interleaving each coefficient is untouched until
\* its task has stored it and is then the value the sequential loop gives,
\* so the vectors after the loops equal those of the sequential update.
C12_TasksAreIndependent ==
    InParallel =>
        /\ \A a \in omp.log : C12_OwnElement(a)
        /\ \A a \in omp.log : \A b \in omp.log : C12_NoConflict(a, b)
        /\ \A i \in 1..nShapeCoeffs :
               face.m_shape_coefficients[i] =
                   IF C12_ShapeDone(i)
                   THEN ShapeUpdate(hist.before.face.m_shape_coefficients[i],
                                    result[7 + i], face.m_shape_std_dev[i])
                   ELSE hist.before.face.m_shape_coefficients[i]
        /\ \A i \in 1..nExpressionCoeffs :
               face.m_expression_coefficients[i] =
                   IF C12_ExpressionDone(i)
                   THEN ExpressionUpdate(hist.before.face.m_expression_coefficients[i],
                                         result[7 + nShapeCoeffs + i],
                                         face.m_expression_std_dev[i])
                   ELSE hist.before.face.m_expression_coefficients[i]
        /\ face.m_shape_std_dev = hist.before.face.m_shape_std_dev
        /\ face.m_expression_std_dev = hist.before.face.m_expression_std_dev

\* The tasks of the expression loop run out of order: task 2 has stored a
\* clamped coefficient, task 0 has computed and not stored, task 1 has not
\* started; the shape loop before it has changed three coefficients.
C12_Witness ==
    /\ pc = "par_expression" /\ nShapeCoeffs = 3 /\ nExpressionCoeffs = 3
    /\ omp.task = <<"computed", "todo", "done">>
    /\ face.m_expression_coefficients[3] # hist.before.face.m_expression_coefficients[3]
    /\ face.m_expression_coefficients[3] \in {Zero, One}
    /\ \A i \in 1..3 :
           face.m_shape_coefficients[i] # hist.before.face.m_shape_coefficients[i]

=============================================================================
